---- MODULE Spec2Model ----
(***************************************************************************)
(* TreeChartCore (tree-chart-core/index.ts) and the VueTree component that *)
(* drives it: the collapse state of the dataset, the node list of the last *)
(* layout pass, the transform shared by the SVG and the DOM surface, the   *)
(* drag / pinch / wheel handlers and the deferred callbacks.               *)
(*                                                                         *)
(* Numbers.  A JavaScript number is a record: an exact rational n/d in     *)
(* lowest terms, or NaN.  Floating point rounding is not modelled.  A      *)
(* value interpolated into a style string is a record too: an integer, or  *)
(* one of the texts "undefined", "null", "NaN", "Infinity", "-Infinity".   *)
(* A transform string is the record of its parts: the empty string,        *)
(* "translate(Xpx, Ypx)", or "scale(S) translate(Xpx, Ypx)".               *)
(***************************************************************************)
EXTENDS Integers, Sequences, FiniteSets, TLC

\* ------------------------------------------------------------------ bounds
MaxZooms     == 1    \* calls of setScale
MaxDrags     == 1    \* pointer-downs that start a drag
MaxTimers    == 1    \* pending restorePosition timeouts
MaxFrames    == 1    \* pending animation-frame callbacks
MaxTouches   == 2    \* simultaneous touch points

\* ------------------------------------------------------- program constants
DEFAULT_NODE_WIDTH       == 100
DEFAULT_NODE_HEIGHT      == 100
DEFAULT_LEVEL_HEIGHT     == 200
DEFAULT_HEIGHT_DECREMENT == 200

\* ---------------------------------------------------------------- numbers
RECURSIVE GCD(_, _)
GCD(a, b) == IF b = 0 THEN a ELSE GCD(b, a % b)

Abs(i) == IF i < 0 THEN -i ELSE i

NaN       == [k |-> "NaN", n |-> 0, d |-> 1]
NotNumber == [k |-> "str", n |-> 0, d |-> 1]   \* an argument whose typeof is not "number"
Num(n, d) == LET g == GCD(Abs(n), d) IN [k |-> "num", n |-> n \div g, d |-> d \div g]

\* a * b
Mul(a, b) == IF a.k = "num" /\ b.k = "num" THEN Num(a.n * b.n, a.d * b.d) ELSE NaN

\* a value interpolated by `${v}px`
Px(v)        == [k |-> "int", v |-> v]
PxUndefined  == [k |-> "undefined", v |-> 0]
PxNull       == [k |-> "null", v |-> 0]
PxNaN        == [k |-> "NaN", v |-> 0]
PxInfinity   == [k |-> "Infinity", v |-> 0]
PxNegInf     == [k |-> "-Infinity", v |-> 0]

\* Math.floor(delta / scale) + origin, delta and origin integers
FloorDivPlus(delta, scale, origin) ==
    IF scale.k # "num" THEN PxNaN
    ELSE IF scale.n = 0
         THEN (IF delta > 0 THEN PxInfinity ELSE IF delta < 0 THEN PxNegInf ELSE PxNaN)
         ELSE Px(((delta * scale.d) \div scale.n) + origin)

\* -------------------------------------------------------- transform strings
EmptyStr       == [f |-> "empty", s |-> Num(1, 1), x |-> Px(0), y |-> Px(0)]
TranslateStr(x, y)   == [f |-> "t", s |-> Num(1, 1), x |-> x, y |-> y]
ScaleTranslateStr(s, x, y) == [f |-> "st", s |-> s, x |-> x, y |-> y]

\* string.match(MATCH_TRANSLATE_REGEX) !== null : translate(<int>px, <int>px)
MatchTranslate(str) == str.f # "empty" /\ str.x.k = "int" /\ str.y.k = "int"

\* string.match(MATCH_SCALE_REGEX) !== null : the string has a scale(...) part
MatchScale(str) == str.f = "st"

\* str.replace(MATCH_TRANSLATE_REGEX, `translate(${x}px, ${y}px)`)
ReplaceTranslate(str, x, y) ==
    IF MatchTranslate(str) THEN [str EXCEPT !.x = x, !.y = y] ELSE str

\* a declaration the style object accepts when it validates its values
ValidCss(str) ==
    \/ str.f = "empty"
    \/ /\ str.x.k = "int" /\ str.y.k = "int"
       /\ str.f = "st" => str.s.k = "num"

\* ------------------------------------------------------------ the dataset
\* Node identities (the _key deepCopy gives every node); 0 is "__invisible_root".
MaxNode == 7
Ids     == 0..MaxNode
InvisibleRoot == 0

\* a children / _children slot: an array, null, or undefined (the field is absent)
List(l)   == [t |-> "list", l |-> l]
NullSlot  == [t |-> "null", l |-> <<>>]
Undefined == [t |-> "undefined", l |-> <<>>]
Truthy(slot) == slot.t = "list"

\* External datasets the caller can pass: one root object, an array of roots
\* (a forest), or nothing.  roots: the top-level nodes in input order;
\* kids: the children array of every node that has one.
SingleTree ==
    [isArray |-> FALSE, missing |-> FALSE, roots |-> <<1>>,
     identifier |-> "undefined", links |-> Undefined,
     kids |-> [i \in Ids |-> CASE i = 1 -> List(<<2, 3>>)
                               [] i = 2 -> List(<<4, 5>>)
                               [] i = 3 -> List(<<6>>)
                               [] i = 4 -> List(<<7>>)
                               [] OTHER -> Undefined]]
Forest ==
    [isArray |-> TRUE, missing |-> FALSE, roots |-> <<1, 2>>,
     identifier |-> "undefined", links |-> Undefined,
     kids |-> [i \in Ids |-> CASE i = 1 -> List(<<3, 4>>)
                               [] i = 2 -> List(<<5>>)
                               [] i = 3 -> List(<<6>>)
                               [] i = 4 -> List(<<>>)
                               [] i = 5 -> List(<<7>>)
                               [] OTHER -> Undefined]]
Leaf ==
    [isArray |-> FALSE, missing |-> FALSE, roots |-> <<1>>,
     identifier |-> "undefined", links |-> Undefined,
     kids |-> [i \in Ids |-> Undefined]]
NoDataset ==
    [isArray |-> FALSE, missing |-> TRUE, roots |-> <<>>,
     identifier |-> "undefined", links |-> Undefined,
     kids |-> [i \in Ids |-> Undefined]]
\* SingleTree whose root object declares identifier: "name" and
\* links: [{ parent: 2, child: 6 }], an edge the hierarchy does not have
LinkedTree ==
    [SingleTree EXCEPT !.identifier = "name",
                       !.links = List(<<[parent |-> 2, child |-> 6]>>)]
ExternalDatasets == {SingleTree, Forest, Leaf, NoDataset, LinkedTree}

NoDepth == -1   \* a node assignDepth never reached has no depth field

\* deepCopy(externalData[i]) placed in the internal dataset: the copy has the
\* children of the input and none of the collapse fields
IsRoot(ext, i) == \E j \in 1..Len(ext.roots) : ext.roots[j] = i
deepCopy(ds, ext) ==
    [ds EXCEPT !.children = [i \in Ids |-> IF i = InvisibleRoot THEN ds.children[i] ELSE ext.kids[i]],
               !.identifier = [i \in Ids |-> IF IsRoot(ext, i) THEN ext.identifier ELSE "undefined"],
               !.links = [i \in Ids |-> IF IsRoot(ext, i) THEN ext.links ELSE Undefined]]

RECURSIVE assignDepth(_, _, _)
RECURSIVE assignDepthEach(_, _, _)
assignDepth(ds, node, currentDepth) ==
    LET ds1 == [ds EXCEPT !.depth[node] = currentDepth]
    IN  IF Truthy(ds1.children[node])
        THEN assignDepthEach(ds1, ds1.children[node].l, currentDepth + 1)
        ELSE ds1
assignDepthEach(ds, l, d) ==
    IF l = <<>> THEN ds ELSE assignDepthEach(assignDepth(ds, Head(l), d), Tail(l), d)

\* a collapse that copies the list and leaves the children slot populated
CollapseKeepsChildren(ds, node) ==
    [ds EXCEPT !._children[node] = ds.children[node],
               !._collapsed[node] = "true"]

\* node._children = node.children; node.children = null; node._collapsed = true
Collapse(ds, node) ==
    [ds EXCEPT !._children[node] = ds.children[node],
               !.children[node]  = NullSlot,
               !._collapsed[node] = "true"]

\* an expand with its first two assignments swapped: the parked list is
\* cleared before it is copied
ExpandAfterClear(ds, node) ==
    [ds EXCEPT !._children[node] = NullSlot,
               !.children[node]  = NullSlot,
               !._collapsed[node] = "false"]

\* node.children = node._children; node._children = null; node._collapsed = false
Expand(ds, node) ==
    [ds EXCEPT !.children[node]  = ds._children[node],
               !._children[node] = NullSlot,
               !._collapsed[node] = "false"]

RECURSIVE collapseAllNodes(_, _)
RECURSIVE collapseAllEach(_, _)
collapseAllNodes(ds, node) ==
    IF Truthy(ds.children[node])
    THEN LET ds1 == Collapse(ds, node) IN collapseAllEach(ds1, ds1._children[node].l)
    ELSE ds
collapseAllEach(ds, l) ==
    IF l = <<>> THEN ds ELSE collapseAllEach(collapseAllNodes(ds, Head(l)), Tail(l))

RECURSIVE expandNodesByDepth(_, _, _)
RECURSIVE expandByDepthEach(_, _, _)
\* expandNodesByDepth stopping at the nodes of depth minDepth as well
expandNodesBelowDepth(ds, node, minDepth) ==
    IF ds.depth[node] >= minDepth THEN ds
    ELSE LET ds1 == IF Truthy(ds._children[node]) THEN Expand(ds, node) ELSE ds
         IN  IF Truthy(ds1.children[node])
             THEN expandByDepthEach(ds1, ds1.children[node].l, minDepth)
             ELSE ds1

expandNodesByDepth(ds, node, minDepth) ==
    IF ds.depth[node] > minDepth THEN ds
    ELSE LET ds1 == IF Truthy(ds._children[node]) THEN Expand(ds, node) ELSE ds
         IN  IF Truthy(ds1.children[node])
             THEN expandByDepthEach(ds1, ds1.children[node].l, minDepth)
             ELSE ds1
expandByDepthEach(ds, l, minDepth) ==
    IF l = <<>> THEN ds
    ELSE expandByDepthEach(expandNodesByDepth(ds, Head(l), minDepth), Tail(l), minDepth)

\* a treeConfig object is a record over the fields its literal names; reading
\* a field the object lacks gives undefined
HasField(cfg, f) == f \in DOMAIN cfg
\* a boolean field read in a condition: undefined is falsy
Flag(cfg, f) == HasField(cfg, f) /\ cfg[f]
\* "this.treeConfig.collapseDepth || 0"
MinExpandedDepth(cfg) == IF HasField(cfg, "collapseDepth") THEN cfg.collapseDepth ELSE 0
\* a size field multiplied by or subtracted from a number: NaN when undefined
SizeTimes(cfg, f, factor) == IF HasField(cfg, f) THEN Px(factor * cfg[f]) ELSE PxNaN
SizeMinus(cfg, f, amount) == IF HasField(cfg, f) THEN Px(cfg[f] - amount) ELSE PxNaN

\* { name: "__invisible_root", children: [] }
EmptyData ==
    [children   |-> [i \in Ids |-> IF i = InvisibleRoot THEN List(<<>>) ELSE Undefined],
     _children  |-> [i \in Ids |-> Undefined],
     _collapsed |-> [i \in Ids |-> "undefined"],
     depth      |-> [i \in Ids |-> NoDepth],
     identifier |-> [i \in Ids |-> "undefined"],
     links      |-> [i \in Ids |-> Undefined]]

\* the body of both branches of updatedInternalData for one root
IngestRoot(ds, rootNode, cfg) ==
    LET d1 == assignDepth(ds, rootNode, 0)
        d2 == IF Flag(cfg, "initiallyCollapsed") THEN collapseAllNodes(d1, rootNode) ELSE d1
        d3 == expandNodesByDepth(d2, rootNode, MinExpandedDepth(cfg))
    IN  [d3 EXCEPT !.children[InvisibleRoot] = List(Append(d3.children[InvisibleRoot].l, rootNode))]

\* the loop run from the first root to the last
RECURSIVE IngestFromFirst(_, _, _, _)
IngestFromFirst(ds, roots, i, cfg) ==
    IF i < 1 THEN ds
    ELSE IngestFromFirst(IngestRoot(ds, roots[Len(roots) + 1 - i], cfg), roots, i - 1, cfg)

\* the loop "for (let i = externalData.length - 1; i >= 0; i--)"
RECURSIVE IngestFrom(_, _, _, _)
IngestFrom(ds, roots, i, cfg) ==
    IF i < 1 THEN ds ELSE IngestFrom(IngestRoot(ds, roots[i], cfg), roots, i - 1, cfg)

updatedInternalData(ext, cfg) ==
    IF ext.missing THEN EmptyData
    ELSE IF ext.isArray
         THEN IngestFrom(deepCopy(EmptyData, ext), ext.roots, Len(ext.roots), cfg)
         ELSE IngestRoot(deepCopy(EmptyData, ext), ext.roots[1], cfg)

\* ------------------------------------------------------------- the layout
\* d3.hierarchy(dataset).descendants(): breadth-first from the root, through
\* the children slot only; a node's depth is its distance from the invisible
\* root.  frontier: the nodes of one level, in order.
ChildrenOf(ds, n) == IF Truthy(ds.children[n]) THEN ds.children[n].l ELSE <<>>

RECURSIVE ConcatChildren(_, _)
ConcatChildren(ds, l) ==
    IF l = <<>> THEN <<>> ELSE ChildrenOf(ds, Head(l)) \o ConcatChildren(ds, Tail(l))

\* d3.tree().nodeSize([nodeWidth, levelHeight]): y is depth * levelHeight; x
\* stands for the tidy-tree abscissa, here the rank in the level * nodeWidth
LevelNodes(frontier, depth, cfg) ==
    [j \in 1..Len(frontier) |->
        [data |-> frontier[j], depth |-> depth,
         x |-> SizeTimes(cfg, "nodeWidth", j - 1),
         y |-> SizeTimes(cfg, "levelHeight", depth)]]

\* the nodes in depth-first pre-order instead of breadth-first
RECURSIVE DescendantsPreOrder(_, _, _, _)
DescendantsPreOrder(ds, frontier, depth, cfg) ==
    IF frontier = <<>> THEN <<>>
    ELSE LevelNodes(<<Head(frontier)>>, depth, cfg)
         \o DescendantsPreOrder(ds, ChildrenOf(ds, Head(frontier)), depth + 1, cfg)
         \o DescendantsPreOrder(ds, Tail(frontier), depth, cfg)

RECURSIVE Descendants(_, _, _, _)
Descendants(ds, frontier, depth, cfg) ==
    IF frontier = <<>> THEN <<>>
    ELSE LevelNodes(frontier, depth, cfg)
         \o Descendants(ds, ConcatChildren(ds, frontier), depth + 1, cfg)

\* tree.links(): one link per non-root node, in descendants order
RECURSIVE LinksOf(_, _)
LinksOf(ds, nodes) ==
    IF nodes = <<>> THEN <<>>
    ELSE LET n == Head(nodes).data
             mine == [j \in 1..Len(ChildrenOf(ds, n)) |->
                         [source |-> n, target |-> ChildrenOf(ds, n)[j]]]
         IN  mine \o LinksOf(ds, Tail(nodes))

buildTree(ds, cfg) ==
    LET nodes == Descendants(ds, <<InvisibleRoot>>, 0, cfg)
    IN  [nodes |-> nodes, links |-> LinksOf(ds, nodes)]

\* updateDataList without the filter on the links' source
updateDataListAllLinks(ds, cfg) ==
    LET t == buildTree(ds, cfg)
    IN  [nodeDataList |-> Tail(t.nodes), linkDataList |-> t.links]

\* nodeDataList.splice(0, 1); links whose source is the invisible root dropped
updateDataList(ds, cfg) ==
    LET t == buildTree(ds, cfg)
    IN  [nodeDataList |-> Tail(t.nodes),
         linkDataList |-> SelectSeq(t.links, LAMBDA k : k.source # InvisibleRoot)]

\* ---------------------------------------------------------------- inputs
ContainerWidth  == 801   \* domElement.offsetWidth
ContainerHeight == 600   \* domElement.offsetHeight
Points    == {<<0, 0>>, <<3, 2>>}   \* (clientX, clientY) of a pointer event
Distances == {1, 2}                  \* Math.hypot of two touch points
ScaleArgs == {NaN, NotNumber, Num(0, 1), Num(2, 1)}

\* treeConfig as passed by the caller
DefaultConfig ==
    [nodeWidth |-> DEFAULT_NODE_WIDTH, nodeHeight |-> DEFAULT_NODE_HEIGHT,
     levelHeight |-> DEFAULT_LEVEL_HEIGHT, focusToNode |-> FALSE,
     initiallyCollapsed |-> FALSE, useMobileZoom |-> FALSE,
     useMouseZoom |-> FALSE, collapseDepth |-> 0]
InteractiveConfig ==
    [nodeWidth |-> 120, nodeHeight |-> 60, levelHeight |-> 90, focusToNode |-> TRUE,
     initiallyCollapsed |-> TRUE, useMobileZoom |-> TRUE,
     useMouseZoom |-> TRUE, collapseDepth |-> 0]
DeepConfig ==
    [nodeWidth |-> 120, nodeHeight |-> 60, levelHeight |-> 90, focusToNode |-> FALSE,
     initiallyCollapsed |-> TRUE, useMobileZoom |-> FALSE,
     useMouseZoom |-> FALSE, collapseDepth |-> 1]
Configs == {DefaultConfig, InteractiveConfig, DeepConfig}

\* the configs of the ingestion scenarios: collapseDepth from -1 to 2
DeeperConfig   == [DeepConfig EXCEPT !.collapseDepth = 2]
NoDepthConfig  == [DeepConfig EXCEPT !.collapseDepth = -1]
IngestConfigs  == Configs \cup {DeeperConfig, NoDepthConfig}

\* the construction of the effective treeConfig
ConfigFields ==
    {"nodeWidth", "nodeHeight", "levelHeight", "focusToNode", "initiallyCollapsed",
     "useMobileZoom", "useMouseZoom", "collapseDepth"}
\* the initializer of the class field treeConfig
ClassDefaults ==
    [nodeWidth |-> DEFAULT_NODE_WIDTH, nodeHeight |-> DEFAULT_NODE_HEIGHT,
     levelHeight |-> DEFAULT_LEVEL_HEIGHT, focusToNode |-> FALSE,
     initiallyCollapsed |-> FALSE, useMobileZoom |-> FALSE,
     collapseDepth |-> 0, useMouseZoom |-> FALSE]
\* "if (params.treeConfig) { this.treeConfig = params.treeConfig; }"
constructorTreeConfig(params) ==
    IF params.given THEN params.treeConfig ELSE ClassDefaults
\* the values a caller supplies, each different from the field's default
SuppliedConfig ==
    [nodeWidth |-> 120, nodeHeight |-> 60, levelHeight |-> 90, focusToNode |-> TRUE,
     initiallyCollapsed |-> TRUE, useMobileZoom |-> TRUE,
     useMouseZoom |-> TRUE, collapseDepth |-> 1]
\* a treeConfig literal naming only the given fields
PartialConfig(fields) == [f \in fields |-> SuppliedConfig[f]]
\* params.treeConfig: absent, or an object over any subset of the fields
ConstructorParams ==
    {[given |-> FALSE, treeConfig |-> PartialConfig({})]}
    \cup {[given |-> TRUE, treeConfig |-> PartialConfig(fields)] : fields \in SUBSET ConfigFields}

VERTICAL   == "vertical"
HORIZONTAL == "horizontal"

\* ----------------------------------------------------------------- state
VARIABLES
    dataset,            \* this.dataset: children, _children, _collapsed, depth of every node
    nodeDataList,       \* this.nodeDataList
    linkDataList,       \* this.linkDataList
    treeConfig,         \* this.treeConfig
    direction,          \* this.direction
    collapseEnabled,    \* this.collapseEnabled
    interactionMode,    \* this.interactionMode: "null", "drag" or "zoom"
    currentScale,       \* this.currentScale
    initTransformX,     \* this.initTransformX, PxUndefined until computed
    initTransformY,     \* this.initTransformY
    svgTransform,       \* svgElement.style.transform
    domTransform,       \* domElement.style.transform
    svgTransition,      \* svgElement.style.transition
    domTransition,      \* domElement.style.transition
    startX, startY, isDrag, mouseDownTransform,   \* closure of enableDrag
    initialDistance, initialScale,                \* closure of enablePinchZoom
    touches,            \* touch points now on the container
    timers,             \* pending setTimeout callbacks of restorePosition
    frames,             \* pending requestAnimationFrame callbacks of initTransform
    inited,             \* init() has run: the handlers are installed
    destroyed,          \* destroy() has run: the three element fields are null
    cssStrict,          \* the style object drops a declaration it cannot parse
    threw,              \* the last call or callback raised a TypeError
    dragCount,          \* drags started so far
    zoomCount,          \* calls of setScale so far
    initialTransformStyle   \* the caller's copy of getInitialTransformStyle().transform

treeVars    == <<dataset, nodeDataList, linkDataList>>
configVars  == <<treeConfig, direction, collapseEnabled, cssStrict>>
styleVars   == <<svgTransform, domTransform, svgTransition, domTransition>>
dragVars    == <<startX, startY, isDrag, mouseDownTransform, dragCount>>
pinchVars   == <<initialDistance, initialScale>>
vars == <<dataset, nodeDataList, linkDataList, treeConfig, direction, collapseEnabled,
          interactionMode, currentScale, initTransformX, initTransformY,
          svgTransform, domTransform, svgTransition, domTransition,
          startX, startY, isDrag, mouseDownTransform, initialDistance, initialScale,
          touches, timers, frames, inited, destroyed, cssStrict, threw, dragCount, zoomCount,
          initialTransformStyle>>

NoDistance == -1   \* initialDistance === null

\* the state after "new TreeChartCore(params)"
InitWith(exts, cfgs, dirs, enabled, stricts) ==
    /\ treeConfig \in cfgs
    /\ direction \in dirs
    /\ collapseEnabled \in enabled
    /\ cssStrict \in stricts
    /\ \E ext \in exts : dataset = updatedInternalData(ext, treeConfig)
    /\ nodeDataList = <<>>
    /\ linkDataList = <<>>
    /\ interactionMode = "null"
    /\ currentScale = Num(1, 1)
    /\ initTransformX = PxUndefined
    /\ initTransformY = PxUndefined
    /\ svgTransform = EmptyStr
    /\ domTransform = EmptyStr
    /\ svgTransition = ""
    /\ domTransition = ""
    /\ startX = 0 /\ startY = 0 /\ isDrag = FALSE /\ mouseDownTransform = EmptyStr
    /\ initialDistance = NoDistance /\ initialScale = Num(1, 1)
    /\ touches = 0 /\ timers = 0 /\ frames = 0
    /\ inited = FALSE /\ destroyed = FALSE /\ threw = FALSE
    /\ dragCount = 0
    /\ zoomCount = 0
    /\ initialTransformStyle = EmptyStr

Init == InitWith(ExternalDatasets, Configs, {VERTICAL, HORIZONTAL}, BOOLEAN, BOOLEAN)

\* ------------------------------------------------- the transform controller
\* element.style.transform = value
StyleSet(old, value) == IF cssStrict /\ ~ValidCss(value) THEN old ELSE value

\* getTranslate reading match[1] for both coordinates
getTranslateFirstGroupTwice ==
    IF MatchTranslate(svgTransform)
    THEN <<svgTransform.x, svgTransform.x>>
    ELSE <<PxNull, PxNull>>

getTranslate ==
    IF MatchTranslate(svgTransform)
    THEN <<svgTransform.x, svgTransform.y>>
    ELSE <<PxNull, PxNull>>

\* setScale writing the svg surface only
setScaleSvgOnly(scaleNum) ==
    IF scaleNum.k = "str"
    THEN /\ threw' = FALSE
         /\ UNCHANGED <<svgTransform, domTransform, currentScale>>
    ELSE IF destroyed
    THEN /\ threw' = TRUE
         /\ UNCHANGED <<svgTransform, domTransform, currentScale>>
    ELSE LET pos == getTranslate
             str == ScaleTranslateStr(scaleNum, pos[1], pos[2])
         IN  /\ svgTransform' = StyleSet(svgTransform, str)
             /\ domTransform' = domTransform
             /\ currentScale' = scaleNum
             /\ threw' = FALSE

\* the body of setScale; reading the style of a null element raises
setScale(scaleNum) ==
    IF scaleNum.k = "str"
    THEN /\ threw' = FALSE
         /\ UNCHANGED <<svgTransform, domTransform, currentScale>>
    ELSE IF destroyed
    THEN /\ threw' = TRUE
         /\ UNCHANGED <<svgTransform, domTransform, currentScale>>
    ELSE LET pos == getTranslate
             str == ScaleTranslateStr(scaleNum, pos[1], pos[2])
         IN  /\ svgTransform' = StyleSet(svgTransform, str)
             /\ domTransform' = StyleSet(domTransform, str)
             /\ currentScale' = scaleNum
             /\ threw' = FALSE

\* everything setScale leaves alone
setScaleFrame ==
    UNCHANGED <<treeVars, configVars,
                   initialTransformStyle, initTransformX, initTransformY,
                svgTransition, domTransition, dragVars, timers, frames, inited, destroyed>>

\* one more call of setScale, within the explored number of calls
CountZoom == zoomCount < MaxZooms /\ zoomCount' = zoomCount + 1

callSetScaleWith(s) ==
    /\ ~destroyed
    /\ CountZoom
    /\ setScale(s)
    /\ setScaleFrame
    /\ UNCHANGED <<interactionMode, pinchVars, touches>>

callSetScale == \E s \in ScaleArgs : callSetScaleWith(s)

\* originScale of adjustZoom and handleWheel
originScale == IF MatchScale(domTransform) THEN domTransform.s ELSE Num(1, 1)

adjustZoom(factor) ==
    /\ ~destroyed
    /\ CountZoom
    /\ setScale(Mul(originScale, factor))
    /\ setScaleFrame
    /\ UNCHANGED <<interactionMode, pinchVars, touches>>

zoomIn  == adjustZoom(Num(6, 5))
zoomOut == adjustZoom(Num(5, 6))

\* handleWheel, installed by enableMouseZoom when treeConfig.useMouseZoom
handleWheel ==
    /\ inited /\ Flag(treeConfig, "useMouseZoom")
    /\ \E zoomFactor \in {Num(9, 10), Num(11, 10)} :
          IF destroyed
          THEN threw' = TRUE /\ UNCHANGED <<svgTransform, domTransform, currentScale>>
          ELSE setScale(Mul(originScale, zoomFactor))
    /\ CountZoom
    /\ setScaleFrame
    /\ UNCHANGED <<interactionMode, pinchVars, touches>>

\* ------------------------------------------------------------------- drag
cancelTransition ==
    /\ svgTransition' = "none"
    /\ domTransition' = "none"
    /\ svgTransform' = StyleSet(svgTransform, svgTransform)
    /\ domTransform' = StyleSet(domTransform, svgTransform)

\* onpointerdown without the early return on a non-idle mode
onpointerdownAnyMode ==
    /\ inited
    /\ \E p \in Points :
          IF destroyed
          THEN /\ threw' = TRUE
               /\ UNCHANGED <<styleVars, interactionMode, dragVars>>
          ELSE /\ dragCount < MaxDrags
               /\ cancelTransition
               /\ interactionMode' = "drag"
               /\ mouseDownTransform' = svgTransform'
               /\ startX' = p[1]
               /\ startY' = p[2]
               /\ isDrag' = TRUE
               /\ dragCount' = dragCount + 1
               /\ threw' = FALSE
    /\ UNCHANGED <<treeVars, configVars,
                   initialTransformStyle, zoomCount, currentScale, initTransformX, initTransformY,
                   pinchVars, touches, timers, frames, inited, destroyed>>

\* treeContainer.onpointerdown
onpointerdown ==
    /\ inited
    /\ \E p \in Points :
          IF interactionMode # "null"
          THEN /\ threw' = FALSE
               /\ UNCHANGED <<styleVars, interactionMode, dragVars>>
          ELSE IF destroyed
          THEN /\ threw' = TRUE
               /\ UNCHANGED <<styleVars, interactionMode, dragVars>>
          ELSE /\ dragCount < MaxDrags
               /\ cancelTransition
               /\ interactionMode' = "drag"
               /\ mouseDownTransform' = svgTransform'
               /\ startX' = p[1]
               /\ startY' = p[2]
               /\ isDrag' = TRUE
               /\ dragCount' = dragCount + 1
               /\ threw' = FALSE
    /\ UNCHANGED <<treeVars, configVars,
                   initialTransformStyle, zoomCount, currentScale, initTransformX, initTransformY,
                   pinchVars, touches, timers, frames, inited, destroyed>>

\* the drag composed with the live transform instead of the captured one
DragTransformLive(originTransform, clientX, clientY) ==
    LET matched == MatchTranslate(svgTransform)
        originOffsetX == IF matched THEN svgTransform.x.v ELSE 0
        originOffsetY == IF matched THEN svgTransform.y.v ELSE 0
        newX == FloorDivPlus(clientX - startX, currentScale, originOffsetX)
        newY == FloorDivPlus(clientY - startY, currentScale, originOffsetY)
    IN  IF svgTransform.f # "empty"
        THEN ReplaceTranslate(svgTransform, newX, newY)
        ELSE TranslateStr(newX, newY)

\* the transform string onpointermove builds for a pointer at (clientX, clientY)
DragTransform(originTransform, clientX, clientY) ==
    LET matched == originTransform.f # "empty" /\ MatchTranslate(originTransform)
        originOffsetX == IF matched THEN originTransform.x.v ELSE 0
        originOffsetY == IF matched THEN originTransform.y.v ELSE 0
        newX == FloorDivPlus(clientX - startX, currentScale, originOffsetX)
        newY == FloorDivPlus(clientY - startY, currentScale, originOffsetY)
    IN  IF originTransform.f # "empty"
        THEN ReplaceTranslate(originTransform, newX, newY)
        ELSE TranslateStr(newX, newY)

\* onpointermove testing isDrag only, not the interaction mode
onpointermoveAnyMode ==
    /\ inited
    /\ \E p \in Points :
          IF ~isDrag
          THEN threw' = FALSE /\ UNCHANGED <<svgTransform, domTransform>>
          ELSE IF destroyed
          THEN threw' = TRUE /\ UNCHANGED <<svgTransform, domTransform>>
          ELSE LET transformStr == DragTransform(mouseDownTransform, p[1], p[2])
               IN  /\ svgTransform' = StyleSet(svgTransform, transformStr)
                   /\ domTransform' = StyleSet(domTransform, transformStr)
                   /\ threw' = FALSE
    /\ UNCHANGED <<treeVars, configVars,
                   initialTransformStyle, zoomCount, interactionMode, currentScale, initTransformX,
                   initTransformY, svgTransition, domTransition, dragVars, pinchVars,
                   touches, timers, frames, inited, destroyed>>

\* treeContainer.onpointermove
onpointermove ==
    /\ inited
    /\ \E p \in Points :
          IF ~isDrag \/ interactionMode # "drag"
          THEN threw' = FALSE /\ UNCHANGED <<svgTransform, domTransform>>
          ELSE IF destroyed
          THEN threw' = TRUE /\ UNCHANGED <<svgTransform, domTransform>>
          ELSE LET transformStr == DragTransform(mouseDownTransform, p[1], p[2])
               IN  /\ svgTransform' = StyleSet(svgTransform, transformStr)
                   /\ domTransform' = StyleSet(domTransform, transformStr)
                   /\ threw' = FALSE
    /\ UNCHANGED <<treeVars, configVars,
                   initialTransformStyle, zoomCount, interactionMode, currentScale, initTransformX,
                   initTransformY, svgTransition, domTransition, dragVars, pinchVars,
                   touches, timers, frames, inited, destroyed>>

\* treeContainer.onpointerup
onpointerup ==
    /\ inited
    /\ startX' = 0
    /\ startY' = 0
    /\ isDrag' = FALSE
    /\ interactionMode' = "null"
    /\ threw' = FALSE
    /\ UNCHANGED <<treeVars, configVars,
                   initialTransformStyle, zoomCount, currentScale, initTransformX, initTransformY,
                   styleVars, mouseDownTransform, dragCount, pinchVars, touches, timers,
                   frames, inited, destroyed>>

\* ------------------------------------------------------------------ pinch
\* handleTouchStart: one more touch point; event.touches counts it
handleTouchStart ==
    /\ inited /\ Flag(treeConfig, "useMobileZoom")
    /\ touches < MaxTouches
    /\ touches' = touches + 1
    /\ IF touches' = 2
       THEN /\ interactionMode' = "zoom"
            /\ \E dist \in Distances : initialDistance' = dist
            /\ initialScale' = currentScale
       ELSE UNCHANGED <<interactionMode, initialDistance, initialScale>>
    /\ threw' = FALSE
    /\ UNCHANGED <<treeVars, configVars,
                   initialTransformStyle, zoomCount, currentScale, initTransformX, initTransformY,
                   styleVars, dragVars, timers, frames, inited, destroyed>>

\* (currentDistance / initialDistance) * initialScale
PinchScale(currentDistance) == Mul(Num(currentDistance, initialDistance), initialScale)

\* handleTouchMove
handleTouchMove ==
    /\ inited /\ Flag(treeConfig, "useMobileZoom")
    /\ touches >= 1
    /\ IF interactionMode = "zoom" /\ touches = 2 /\ initialDistance # NoDistance
       THEN /\ CountZoom
            /\ \E currentDistance \in Distances : setScale(PinchScale(currentDistance))
       ELSE threw' = FALSE /\ UNCHANGED <<svgTransform, domTransform, currentScale, zoomCount>>
    /\ setScaleFrame
    /\ UNCHANGED <<interactionMode, pinchVars, touches>>

\* handleTouchEnd: one touch point less; event.touches no longer counts it
handleTouchEnd ==
    /\ inited /\ Flag(treeConfig, "useMobileZoom")
    /\ touches >= 1
    /\ touches' = touches - 1
    /\ IF touches' < 2
       THEN interactionMode' = "null" /\ initialDistance' = NoDistance
       ELSE UNCHANGED <<interactionMode, initialDistance>>
    /\ threw' = FALSE
    /\ UNCHANGED <<treeVars, configVars,
                   initialTransformStyle, zoomCount, currentScale, initTransformX, initTransformY,
                   styleVars, dragVars, initialScale, timers, frames, inited, destroyed>>

\* ---------------------------------------------- restorePosition, initTransform
\* `scale(1) translate(${initTransformX}px, ${initTransformY}px)`
InitialTransformString == ScaleTranslateStr(Num(1, 1), initTransformX, initTransformY)

restorePosition ==
    /\ ~destroyed
    /\ timers < MaxTimers
    /\ svgTransition' = "transform 0.4s ease"
    /\ domTransition' = "transform 0.4s ease"
    /\ svgTransform' = StyleSet(svgTransform, InitialTransformString)
    /\ domTransform' = StyleSet(domTransform, InitialTransformString)
    /\ currentScale' = Num(1, 1)
    /\ timers' = timers + 1
    /\ threw' = FALSE
    /\ UNCHANGED <<treeVars, configVars,
                   initialTransformStyle, zoomCount, interactionMode, initTransformX, initTransformY,
                   dragVars, pinchVars, touches, frames, inited, destroyed>>

\* the setTimeout callback of restorePosition
restoreTimeout ==
    /\ timers > 0
    /\ timers' = timers - 1
    /\ IF destroyed
       THEN threw' = TRUE /\ UNCHANGED <<svgTransition, domTransition>>
       ELSE svgTransition' = "" /\ domTransition' = "" /\ threw' = FALSE
    /\ UNCHANGED <<treeVars, configVars,
                   initialTransformStyle, zoomCount, interactionMode, currentScale, initTransformX,
                   initTransformY, svgTransform, domTransform, dragVars, pinchVars,
                   touches, frames, inited, destroyed>>

\* the orientation-dependent initial offset
InitialOffsetOf(cfg) ==
    IF direction = VERTICAL
    THEN <<Px(ContainerWidth \div 2), SizeMinus(cfg, "nodeHeight", DEFAULT_HEIGHT_DECREMENT)>>
    ELSE <<SizeMinus(cfg, "nodeWidth", DEFAULT_HEIGHT_DECREMENT), Px(ContainerHeight \div 2)>>
InitialOffset == InitialOffsetOf(treeConfig)

\* the requestAnimationFrame callback of initTransform
initTransformFrame ==
    /\ frames > 0
    /\ frames' = frames - 1
    /\ IF destroyed
       THEN threw' = TRUE /\ UNCHANGED <<initTransformX, initTransformY, svgTransform, domTransform>>
       ELSE LET str == ScaleTranslateStr(Num(1, 1), InitialOffset[1], InitialOffset[2])
            IN  /\ initTransformX' = InitialOffset[1]
                /\ initTransformY' = InitialOffset[2]
                /\ svgTransform' = StyleSet(svgTransform, str)
                /\ domTransform' = StyleSet(domTransform, str)
                /\ threw' = FALSE
    /\ UNCHANGED <<treeVars, configVars,
                   initialTransformStyle, zoomCount, interactionMode, currentScale, svgTransition,
                   domTransition, dragVars, pinchVars, touches, timers, inited, destroyed>>

\* getInitialTransformStyle(), its transform kept by the caller
getInitialTransformStyle ==
    /\ initialTransformStyle' = InitialTransformString
    /\ threw' = FALSE
    /\ UNCHANGED <<treeVars, configVars, zoomCount, interactionMode, currentScale, initTransformX,
                   initTransformY, styleVars, dragVars, pinchVars, touches, timers, frames,
                   inited, destroyed>>

reinitTransform ==
    /\ ~destroyed
    /\ frames < MaxFrames
    /\ frames' = frames + 1
    /\ threw' = FALSE
    /\ UNCHANGED <<treeVars, configVars,
                   initialTransformStyle, zoomCount, interactionMode, currentScale, initTransformX,
                   initTransformY, styleVars, dragVars, pinchVars, touches, timers,
                   inited, destroyed>>

\* ------------------------------------------------------------ focusToNode
\* the indexes a caller passes: every index of the list and one beyond each end
Indexes == -1..Len(nodeDataList)

FocusTransformString(node) ==
    LET nodeX == IF direction = VERTICAL THEN node.x ELSE node.y
        nodeY == IF direction = VERTICAL THEN node.y ELSE node.x
        translateX == IF nodeX.k = "int" THEN Px((ContainerWidth - 2 * nodeX.v) \div 2) ELSE PxNaN
        translateY == IF nodeY.k = "int"
                      THEN Px((ContainerHeight - 2 * nodeY.v
                               - 2 * (DEFAULT_NODE_HEIGHT * 2 + 10)) \div 2)
                      ELSE PxNaN
    IN  ScaleTranslateStr(currentScale, translateX, translateY)

focusToNode(index) ==
    /\ ~destroyed
    /\ IF ~Flag(treeConfig, "focusToNode") \/ index < 0 \/ index >= Len(nodeDataList)
       THEN UNCHANGED styleVars
       ELSE LET str == FocusTransformString(nodeDataList[index + 1])
            IN  /\ svgTransition' = "transform 0.3s ease"
                /\ domTransition' = "transform 0.3s ease"
                /\ svgTransform' = StyleSet(svgTransform, str)
                /\ domTransform' = StyleSet(domTransform, str)
    /\ threw' = FALSE
    /\ UNCHANGED <<treeVars, configVars,
                   initialTransformStyle, zoomCount, interactionMode, currentScale, initTransformX,
                   initTransformY, dragVars, pinchVars, touches, timers, frames,
                   inited, destroyed>>

callFocusToNode == \E index \in Indexes : focusToNode(index)

\* --------------------------------------------------- collapse and expand
\* d[identifier] for "value", d["data"][identifier] otherwise: a positioned
\* node has no value, and its data has the name only
NoValue == -1
NodeField(d, identifier) ==
    IF identifier = "name" THEN d.data ELSE NoValue

\* the links draw() adds for one declared link: from the first node matching
\* link.parent to every node matching link.child
LinksFor(list, identifier, link) ==
    LET parents  == SelectSeq(list, LAMBDA d : NodeField(d, identifier) = link.parent)
        children == SelectSeq(list, LAMBDA d : NodeField(d, identifier) = link.child)
    IN  IF parents = <<>> THEN <<>>
        ELSE [j \in 1..Len(children) |->
                 [source |-> Head(parents).data, target |-> children[j].data]]

RECURSIVE SpecialLinks(_, _, _)
SpecialLinks(list, identifier, links) ==
    IF links = <<>> THEN <<>>
    ELSE LinksFor(list, identifier, Head(links))
         \o SpecialLinks(list, identifier, Tail(links))

\* the part of draw() that rebuilds the lists: updateDataList, then the
\* special links of this.dataset["links"] resolved by this.dataset["identifier"]
draw(ds) ==
    LET lists == updateDataList(ds, treeConfig)
        identifier   == ds.identifier[InvisibleRoot]
        specialLinks == ds.links[InvisibleRoot]
    IN  /\ nodeDataList' = lists.nodeDataList
        /\ linkDataList' =
               IF Truthy(specialLinks) /\ identifier # "undefined"
               THEN lists.linkDataList
                    \o SpecialLinks(lists.nodeDataList, identifier, specialLinks.l)
               ELSE lists.linkDataList

Contains(slot, key) == Truthy(slot) /\ \E j \in 1..Len(slot.l) : slot.l[j] = key

\* nodeDataList.find(node => children has the key || _children has the key)
FindParent(ds, list, key) ==
    LET hits == {j \in 1..Len(list) : \/ Contains(ds.children[list[j].data], key)
                                      \/ Contains(ds._children[list[j].data], key)}
    IN  IF hits = {} THEN <<>>
        ELSE <<list[CHOOSE j \in hits : \A h \in hits : j <= h].data>>

RECURSIVE CollapseSiblings(_, _, _)
\* the forEach of collapseNodesAtSameLevel without the test on the clicked key
RECURSIVE CollapseSiblingsAll(_, _, _)
CollapseSiblingsAll(ds, siblings, key) ==
    IF siblings = <<>> THEN ds
    ELSE LET sibling == Head(siblings)
             ds1 == IF Truthy(ds.children[sibling])
                    THEN Collapse(ds, sibling) ELSE ds
         IN  CollapseSiblingsAll(ds1, Tail(siblings), key)

CollapseSiblings(ds, siblings, key) ==
    IF siblings = <<>> THEN ds
    ELSE LET sibling == Head(siblings)
             ds1 == IF sibling # key /\ Truthy(ds.children[sibling])
                    THEN Collapse(ds, sibling) ELSE ds
         IN  CollapseSiblings(ds1, Tail(siblings), key)

collapseNodesAtSameLevel(ds, list, key) ==
    LET parent == FindParent(ds, list, key)
    IN  IF parent = <<>> THEN ds
        ELSE CollapseSiblings(ds, ChildrenOf(ds, parent[1]), key)

\* the dataset after the body of onClickNode for a node of the list
\* the click that collapses and never expands
ClickNodeCollapseOnly(ds, list, key) ==
    IF Truthy(ds.children[key]) THEN Collapse(ds, key) ELSE ds

ClickNode(ds, list, key) ==
    IF Truthy(ds.children[key])
    THEN Collapse(ds, key)
    ELSE collapseNodesAtSameLevel(Expand(ds, key), list, key)

\* onClickNode without the early return on index 0
onClickNodeAnyIndex(index) ==
    /\ ~destroyed
    /\ IF ~collapseEnabled
       THEN threw' = FALSE /\ UNCHANGED treeVars
       ELSE IF index < 0 \/ index >= Len(nodeDataList)
       THEN threw' = TRUE /\ UNCHANGED treeVars
       ELSE /\ dataset' = ClickNode(dataset, nodeDataList, nodeDataList[index + 1].data)
            /\ draw(dataset')
            /\ threw' = FALSE
    /\ UNCHANGED <<configVars,
                   initialTransformStyle, zoomCount, interactionMode, currentScale, initTransformX, initTransformY,
                   styleVars, dragVars, pinchVars, touches, timers, frames, inited, destroyed>>

\* this.dataset once onClickNode(index) has returned or thrown
DatasetAfterClick(index) ==
    IF index = 0 \/ ~collapseEnabled \/ index < 0 \/ index >= Len(nodeDataList)
    THEN dataset
    ELSE ClickNode(dataset, nodeDataList, nodeDataList[index + 1].data)

onClickNode(index) ==
    /\ ~destroyed
    /\ IF index = 0 \/ ~collapseEnabled
       THEN threw' = FALSE /\ UNCHANGED treeVars
       ELSE IF index < 0 \/ index >= Len(nodeDataList)
       THEN threw' = TRUE /\ UNCHANGED treeVars     \* curNode is undefined
       ELSE /\ dataset' = DatasetAfterClick(index)
            /\ draw(dataset')
            /\ threw' = FALSE
    /\ UNCHANGED <<configVars,
                   initialTransformStyle, zoomCount, interactionMode, currentScale, initTransformX, initTransformY,
                   styleVars, dragVars, pinchVars, touches, timers, frames, inited, destroyed>>

callOnClickNode == \E index \in Indexes : onClickNode(index)

Levels    == 0..4
Positions == -1..3

\* nodeDataList.filter(node => node.depth === level)
NodesAtLevel(list, level) == SelectSeq(list, LAMBDA node : node.depth = level)

expandNodeByLevelAndPosition(level, nodeIndex) ==
    /\ ~destroyed
    /\ LET nodesAtLevel == NodesAtLevel(nodeDataList, level)
       IN  IF nodeIndex < 0 \/ nodeIndex >= Len(nodesAtLevel)
           THEN UNCHANGED treeVars
           ELSE LET nodeData == nodesAtLevel[nodeIndex + 1].data
                IN  IF Truthy(dataset._children[nodeData])
                    THEN /\ dataset' = Expand(dataset, nodeData)
                         /\ draw(dataset')
                    ELSE UNCHANGED treeVars
    /\ threw' = FALSE
    /\ UNCHANGED <<configVars,
                   initialTransformStyle, zoomCount, interactionMode, currentScale, initTransformX, initTransformY,
                   styleVars, dragVars, pinchVars, touches, timers, frames, inited, destroyed>>

callExpandNode == \E level \in Levels, nodeIndex \in Positions :
                      expandNodeByLevelAndPosition(level, nodeIndex)

\* updateDataset also putting the transform back to its initial value
updateDatasetResetting ==
    /\ ~destroyed
    /\ \E ext \in ExternalDatasets : dataset' = updatedInternalData(ext, treeConfig)
    /\ draw(dataset')
    /\ svgTransform' = StyleSet(svgTransform, InitialTransformString)
    /\ domTransform' = StyleSet(domTransform, InitialTransformString)
    /\ currentScale' = Num(1, 1)
    /\ threw' = FALSE
    /\ UNCHANGED <<configVars,
                   initialTransformStyle, zoomCount, interactionMode, initTransformX, initTransformY,
                   svgTransition, domTransition, dragVars, pinchVars, touches, timers,
                   frames, inited, destroyed>>

updateDataset ==
    /\ ~destroyed
    /\ threw' = FALSE
    /\ UNCHANGED <<configVars,
                   initialTransformStyle, zoomCount, interactionMode, currentScale, initTransformX, initTransformY,
                   styleVars, dragVars, pinchVars, touches, timers, frames, inited, destroyed>>
    /\ \E ext \in ExternalDatasets : dataset' = updatedInternalData(ext, treeConfig)
    /\ draw(dataset')

\* ------------------------------------------------------------- lifecycle
\* init(): draw, install the handlers, request the initial-transform frame
init ==
    /\ ~inited /\ ~destroyed
    /\ draw(dataset)
    /\ UNCHANGED dataset
    /\ initialScale' = currentScale
    /\ frames' = frames + 1
    /\ inited' = TRUE
    /\ threw' = FALSE
    /\ UNCHANGED <<configVars,
                   initialTransformStyle, zoomCount, interactionMode, currentScale, initTransformX, initTransformY,
                   styleVars, dragVars, initialDistance, touches, timers, destroyed>>

destroy ==
    /\ ~destroyed
    /\ destroyed' = TRUE
    /\ threw' = FALSE
    /\ UNCHANGED <<treeVars, configVars,
                   initialTransformStyle, zoomCount, interactionMode, currentScale, initTransformX,
                   initTransformY, styleVars, dragVars, pinchVars, touches, timers,
                   frames, inited>>

\* ------------------------------------------------------- specifications
TransformCalls ==
    \/ callSetScale \/ zoomIn \/ zoomOut \/ restorePosition \/ reinitTransform
    \/ callFocusToNode

Callbacks ==
    \/ handleWheel
    \/ onpointerdown \/ onpointermove \/ onpointerup
    \/ handleTouchStart \/ handleTouchMove \/ handleTouchEnd
    \/ restoreTimeout \/ initTransformFrame

TreeCalls == callOnClickNode \/ callExpandNode \/ updateDataset

Next ==
    \/ init \/ destroy \/ TransformCalls \/ Callbacks \/ TreeCalls
    \/ getInitialTransformStyle

Spec == Init /\ [][Next]_vars

\* the transform controller and every gesture on a chart of one node
InitGesture == InitWith({Leaf}, {InteractiveConfig}, {VERTICAL}, {TRUE}, BOOLEAN)
NextGesture == init \/ TransformCalls \/ Callbacks
SpecGesture == InitGesture /\ [][NextGesture]_vars

\* the scale operations on a chart that is dragged and pinched
NextScale ==
    \/ init \/ initTransformFrame
    \/ callSetScale \/ zoomIn \/ zoomOut \/ handleWheel
    \/ onpointerdown \/ onpointermove \/ onpointerup
    \/ handleTouchStart \/ handleTouchMove \/ handleTouchEnd
SpecScale == InitGesture /\ [][NextScale]_vars

\* the interaction mode under pointer and touch events
NextMode ==
    \/ init \/ initTransformFrame
    \/ onpointerdown \/ onpointermove \/ onpointerup
    \/ handleTouchStart \/ handleTouchMove \/ handleTouchEnd
SpecMode == InitGesture /\ [][NextMode]_vars

\* teardown: destroy, and the callbacks that can still arrive
InitLife == InitWith({Leaf}, {InteractiveConfig}, {VERTICAL}, {TRUE}, BOOLEAN)
NextLife == init \/ destroy \/ restorePosition \/ Callbacks
SpecLife == InitLife /\ [][NextLife]_vars

\* dataset replacement on a chart that was zoomed, dragged or focused
InitDataset == InitWith({Forest, Leaf}, {InteractiveConfig}, {VERTICAL}, {TRUE}, {FALSE})
NextDataset ==
    \/ init \/ initTransformFrame \/ updateDataset
    \/ zoomIn \/ callFocusToNode
    \/ onpointerdown \/ onpointermove \/ onpointerup
SpecDataset == InitDataset /\ [][NextDataset]_vars

\* the collapse state under clicks, expansions and dataset replacement
InitTree == InitWith(ExternalDatasets, Configs, {VERTICAL}, BOOLEAN, {FALSE})
NextTree == init \/ TreeCalls
SpecTree == InitTree /\ [][NextTree]_vars

\* ingestion: construction and dataset replacement, before any click
InitIngest == InitWith(ExternalDatasets, IngestConfigs, {VERTICAL, HORIZONTAL}, BOOLEAN, {FALSE})
NextIngest == init \/ updateDataset
SpecIngest == InitIngest /\ [][NextIngest]_vars

\* every public call that takes an index, a level or a position
NextCalls == init \/ TreeCalls \/ callFocusToNode
SpecCalls == InitTree /\ [][NextCalls]_vars

\* construction with any treeConfig, then the first draw, frame and focus
InitConfig ==
    InitWith({Forest}, {constructorTreeConfig(params) : params \in ConstructorParams},
             {VERTICAL, HORIZONTAL}, {TRUE}, {FALSE})
NextConfig == init \/ initTransformFrame \/ callFocusToNode
SpecConfig == InitConfig /\ [][NextConfig]_vars

\* the animated changes, their timeout, and the calls made around them
NextAnimate ==
    \/ init \/ initTransformFrame
    \/ restorePosition \/ callFocusToNode \/ restoreTimeout
    \/ zoomIn \/ onpointerdown \/ onpointerup
SpecAnimate == InitGesture /\ [][NextAnimate]_vars

\* the initial offset: its computation in the frame callback and its readers
InitOffset == InitWith({Leaf}, {InteractiveConfig}, {VERTICAL, HORIZONTAL}, {TRUE}, BOOLEAN)
NextOffset ==
    \/ init \/ initTransformFrame \/ reinitTransform
    \/ getInitialTransformStyle \/ restorePosition \/ restoreTimeout
SpecOffset == InitOffset /\ [][NextOffset]_vars

\* ================================================================ claims

\* C1: in every state reachable by onClickNode, expandNodeByLevelAndPosition
\* and updateDataset, no node has both its children slot and its _children
\* slot populated, and the populated slot holds the whole children list the
\* node was ingested with: a collapse or an expand moves the list, entire,
\* from one slot to the other.
C1_SlotsExclusive ==
    \E ext \in ExternalDatasets :
        \A n \in 1..MaxNode :
            LET c == dataset.children[n]
                p == dataset._children[n]
            IN  /\ ~(Truthy(c) /\ Truthy(p))
                /\ Truthy(ext.kids[n]) => (c = ext.kids[n] \/ p = ext.kids[n])
                /\ ~Truthy(ext.kids[n]) => (~Truthy(c) /\ ~Truthy(p))

\* a chart that started fully expanded, where a click has collapsed one node
\* and a click has expanded another again
C1_Witness ==
    /\ treeConfig = DefaultConfig
    /\ \E n \in 1..MaxNode : dataset._collapsed[n] = "true" /\ Truthy(dataset._children[n])
    /\ \E m \in 1..MaxNode : dataset._collapsed[m] = "false" /\ Truthy(dataset.children[m])

\* C2: in every state reachable by setScale, zoomIn/zoomOut, wheel steps,
\* pinch moves, drag moves, restorePosition, focusToNode, cancelTransition
\* and the initial-transform callback, the transform of the SVG surface and
\* the transform of the DOM surface are the same value.
C2_SurfacesAligned == svgTransform = domTransform

\* a zoom followed by a drag whose move has shifted the transform of both
\* surfaces away from the drag-start transform
C2_Witness ==
    /\ isDrag /\ zoomCount > 0
    /\ MatchScale(svgTransform) /\ svgTransform.s # Num(1, 1)
    /\ svgTransform # mouseDownTransform
    /\ domTransform = svgTransform

\* C3: a pointer-down switches the mode to drag and captures the drag origin
\* and the drag-start transform when the mode is idle, and only then: with
\* the mode at drag or zoom the pointer-down leaves every field as it was,
\* and the captured drag state never changes to "dragging" from a non-idle
\* mode.
C3_PointerDownOnlyWhenIdle ==
    [][/\ onpointerdown =>
            IF interactionMode = "null"
            THEN /\ interactionMode' = "drag"
                 /\ isDrag'
                 /\ mouseDownTransform' = svgTransform
                 /\ <<startX', startY'>> \in Points
            ELSE UNCHANGED <<interactionMode, styleVars, startX, startY, isDrag,
                             mouseDownTransform, currentScale, pinchVars, touches>>
       /\ (isDrag' /\ <<startX, startY, isDrag, mouseDownTransform>>'
                          # <<startX, startY, isDrag, mouseDownTransform>>)
            => interactionMode = "null" /\ interactionMode' = "drag"]_vars

\* a drag that a pointer-down started from the idle mode, with the pointer
\* position and the applied transform captured
C3_Witness ==
    /\ interactionMode = "drag" /\ isDrag
    /\ startX = 3 /\ startY = 2
    /\ MatchScale(mouseDownTransform)
    /\ mouseDownTransform = svgTransform

\* C4 (as claimed): the mode enters zoom from idle only; it never goes from
\* drag directly to zoom.
C4_ZoomOnlyFromIdle ==
    [][(interactionMode' = "zoom" /\ interactionMode # "zoom")
          => interactionMode = "null"]_vars

\* C4 (amended): the mode enters zoom only on the touch-start that brings the
\* touch points to two, from idle or from drag; and the two gestures never
\* write in the same mode: a pointer-move changes the transform only while
\* the mode is drag, a touch-move changes the transform or the scale only
\* while the mode is zoom.
C4_ZoomOnTwoFingerStart ==
    [][/\ (interactionMode' = "zoom" /\ interactionMode # "zoom")
            => /\ handleTouchStart
               /\ touches' = 2
               /\ interactionMode \in {"null", "drag"}
       /\ (onpointermove /\ <<svgTransform, domTransform>>' # <<svgTransform, domTransform>>)
            => interactionMode = "drag"
       /\ (handleTouchMove /\ <<svgTransform, domTransform, currentScale>>'
                                 # <<svgTransform, domTransform, currentScale>>)
            => interactionMode = "zoom"]_vars

\* a pinch that took the mode over from a drag still holding the pointer, and
\* has set the scale
C4_Witness ==
    /\ interactionMode = "zoom" /\ isDrag /\ touches = 2
    /\ zoomCount > 0 /\ currentScale # initialScale

\* C5: once zoom is entered, the mode leaves zoom only through a touch-end
\* that leaves fewer than two touch points.
C5_ZoomLeftOnlyByTouchEnd ==
    [][(interactionMode = "zoom" /\ interactionMode' # "zoom")
          => (handleTouchEnd /\ touches' < 2)]_vars

\* C6: setScale with NaN or with a non-numeric argument leaves the transform
\* of both surfaces and the stored currentScale unchanged.
C6_SetScaleRejectsNaN ==
    [][(callSetScaleWith(NaN) \/ callSetScaleWith(NotNumber))
          => UNCHANGED <<svgTransform, domTransform, currentScale>>]_vars

\* the translate offset a surface carries, as the chart reads it back: two
\* integers, or none
TranslateOf(str) == IF MatchTranslate(str) THEN <<str.x, str.y>> ELSE <<PxNull, PxNull>>

\* C7: every call of setScale (the steps that count one: setScale itself,
\* zoomIn, zoomOut, a wheel step and a pinch move) leaves the translate
\* offset of both surfaces as it was, also before the initial-transform
\* callback has run; when the surfaces carry an offset, a call that stores a
\* new numeric scale applies that scale with the offset unchanged.
C7_ScaleKeepsTranslate ==
    [][zoomCount' # zoomCount
          => /\ TranslateOf(svgTransform') = TranslateOf(svgTransform)
             /\ TranslateOf(domTransform') = TranslateOf(domTransform)
             /\ (/\ currentScale' # currentScale
                 /\ currentScale'.k = "num"
                 /\ MatchTranslate(svgTransform))
                  => svgTransform' = ScaleTranslateStr(currentScale', svgTransform.x,
                                                       svgTransform.y)]_vars

\* a finished drag that moved the chart off its initial offset, then a scale
\* change that kept the moved offset
C7_Witness ==
    /\ zoomCount > 0 /\ dragCount > 0 /\ ~isDrag
    /\ currentScale \notin {Num(1, 1), NaN}
    /\ svgTransform = ScaleTranslateStr(currentScale, Px(InitialOffset[1].v + 3),
                                        Px(InitialOffset[2].v + 2))

\* C8: when the scale changes between a pointer-down and its pointer-up, the
\* later pointer-moves of that drag keep the scale the surfaces carry and
\* change only the translate.
C8_DragKeepsNewScale ==
    [][(onpointermove /\ isDrag /\ interactionMode = "drag"
            /\ currentScale.k = "num" /\ currentScale.n > 0
            /\ MatchTranslate(mouseDownTransform) /\ MatchScale(svgTransform))
          => (MatchScale(svgTransform') /\ svgTransform'.s = svgTransform.s)]_vars

\* C9: after destroy no callback changes the state of the chart or raises an
\* error.
C9_CallbacksInertAfterDestroy ==
    [][destroyed
          => /\ ~threw'
             /\ UNCHANGED <<treeVars, interactionMode, currentScale, initTransformX,
                            initTransformY, styleVars>>]_vars

\* C10 (as claimed): after updateDataset on a chart whose initial transform
\* has been applied, the scale is 1 and the translate is the initial offset.
C10_DatasetResetsTransform ==
    [][(updateDataset /\ inited /\ initTransformX # PxUndefined)
          => /\ currentScale' = Num(1, 1)
             /\ svgTransform' = ScaleTranslateStr(Num(1, 1), InitialOffset[1], InitialOffset[2])
             /\ domTransform' = svgTransform']_vars

\* C10 (amended): updateDataset replaces the dataset and the lists and leaves
\* the transform, the transition, the scale, the initial offset and the
\* interaction mode as they were.
C10_DatasetKeepsTransform ==
    [][updateDataset
          => UNCHANGED <<svgTransform, domTransform, svgTransition, domTransition,
                         currentScale, initTransformX, initTransformY,
                         interactionMode>>]_vars

\* a chart focused on the second root of a forest, then given a dataset of a
\* single root: the focus transform is still applied
C10_Witness ==
    /\ inited /\ direction = VERTICAL
    /\ Len(nodeDataList) = 1
    /\ MatchScale(svgTransform)
    /\ svgTransform.x = Px((ContainerWidth - 2 * treeConfig.nodeWidth) \div 2)
    /\ domTransform = svgTransform

\* a node that has children, in whichever slot they are
HasChildren(n) == Truthy(dataset.children[n]) \/ Truthy(dataset._children[n])

\* C11: after ingestion (construction or updateDataset) with
\* initiallyCollapsed = true and collapseDepth = d, real roots have depth 0,
\* every child is one deeper than its parent, every node with children and
\* depth <= d is expanded and every node with children and depth > d is
\* collapsed.
C11_CollapseDepth ==
    treeConfig.initiallyCollapsed =>
        /\ \A j \in 1..Len(dataset.children[InvisibleRoot].l) :
               dataset.depth[dataset.children[InvisibleRoot].l[j]] = 0
        /\ \A n \in 1..MaxNode :
               HasChildren(n) =>
                  /\ dataset.depth[n] # NoDepth
                  /\ LET kids == IF Truthy(dataset.children[n]) THEN dataset.children[n].l
                                  ELSE dataset._children[n].l
                     IN  \A j \in 1..Len(kids) : dataset.depth[kids[j]] = dataset.depth[n] + 1
                  /\ IF dataset.depth[n] <= treeConfig.collapseDepth
                     THEN /\ Truthy(dataset.children[n])
                          /\ ~Truthy(dataset._children[n])
                          /\ dataset._collapsed[n] = "false"
                     ELSE /\ Truthy(dataset._children[n])
                          /\ ~Truthy(dataset.children[n])
                          /\ dataset._collapsed[n] = "true"

\* a tree ingested with collapseDepth = 1: a node of depth 1 expanded above a
\* node of depth 2 collapsed
C11_Witness ==
    /\ treeConfig.initiallyCollapsed /\ treeConfig.collapseDepth = 1
    /\ \E n, k \in 1..MaxNode :
          /\ dataset.depth[n] = 1 /\ Truthy(dataset.children[n])
          /\ dataset.depth[k] = 2 /\ Truthy(dataset._children[k])
          /\ Contains(dataset.children[n], k)

\* C12: for every node of the list with children, at an index onClickNode
\* acts on, a click collapses it, the node keeps its index in the list drawn
\* after the collapse, and a second click at that index restores its children
\* slot to the list it had, with every depth value unchanged.
C12_CollapseExpandRoundTrip ==
    collapseEnabled =>
        \A index \in 1..(Len(nodeDataList) - 1) :
            LET key == nodeDataList[index + 1].data
            IN  Truthy(dataset.children[key]) =>
                  LET collapsed == ClickNode(dataset, nodeDataList, key)
                      redrawn   == updateDataList(collapsed, treeConfig).nodeDataList
                  IN  /\ ~Truthy(collapsed.children[key])
                      /\ collapsed._children[key] = dataset.children[key]
                      /\ index < Len(redrawn)
                      /\ redrawn[index + 1].data = key
                      /\ LET expanded == ClickNode(collapsed, redrawn, key)
                         IN  /\ expanded.children[key] = dataset.children[key]
                             /\ ~Truthy(expanded._children[key])
                             /\ expanded.depth = dataset.depth

\* a chart that started fully expanded, where node 2 of the single tree has
\* been collapsed and expanded again: its list is back and its sibling
\* branch was closed by the expand
C12_Witness ==
    /\ treeConfig = DefaultConfig /\ collapseEnabled
    /\ dataset._collapsed[2] = "false"
    /\ dataset.children[2] = List(<<4, 5>>)
    /\ dataset._collapsed[3] = "true"
    /\ \E index \in 1..(Len(nodeDataList) - 1) : nodeDataList[index + 1].data = 2

\* C13: when a click expands a collapsed node whose parent is in the node
\* list, the dataset the click leaves has the clicked node expanded (its
\* parked list back in the children slot) and every other child of that
\* parent that has children collapsed, with _collapsed = true.
C13_ExpandClosesSiblings ==
    \A index \in 1..(Len(nodeDataList) - 1) :
        LET key    == nodeDataList[index + 1].data
            parent == FindParent(dataset, nodeDataList, key)
        IN  (Truthy(dataset._children[key]) /\ ~Truthy(dataset.children[key])
                /\ parent # <<>>) =>
              LET after == ClickNode(dataset, nodeDataList, key)
                  kids  == ChildrenOf(dataset, parent[1])
              IN  /\ after.children[key] = dataset._children[key]
                  /\ after._collapsed[key] = "false"
                  /\ Contains(List(kids), key)
                  /\ \A j \in 1..Len(kids) :
                        (kids[j] # key /\ HasChildren(kids[j])) =>
                           /\ ~Truthy(after.children[kids[j]])
                           /\ Truthy(after._children[kids[j]])
                           /\ after._collapsed[kids[j]] = "true"

\* the forest, started fully expanded: node 3 was collapsed and expanded
\* again by clicks, and the expand has closed its sibling, node 4
C13_Witness ==
    /\ treeConfig = DefaultConfig /\ collapseEnabled
    /\ dataset.children[1] = List(<<3, 4>>)
    /\ dataset._collapsed[3] = "false" /\ dataset.children[3] = List(<<6>>)
    /\ dataset._collapsed[4] = "true" /\ dataset._children[4] = List(<<>>)

\* C14: onClickNode(0) changes no node's children, _children or _collapsed
\* and leaves the node list and the link list as they were, in every state.
C14_ClickZeroNoOp ==
    [][onClickNode(0) => (~threw' /\ UNCHANGED <<dataset, nodeDataList, linkDataList>>)]_vars

\* a drawn chart with collapse enabled whose node at index 0 has an open
\* children list, and another node has been toggled by a click
C14_Witness ==
    /\ inited /\ collapseEnabled /\ treeConfig = DefaultConfig
    /\ Len(nodeDataList) > 1
    /\ Truthy(dataset.children[nodeDataList[1].data])
    /\ dataset._collapsed[nodeDataList[1].data] = "undefined"
    /\ \E n \in 1..MaxNode : dataset._collapsed[n] = "true"

\* C15: expandNodeByLevelAndPosition with a position outside the nodes of
\* the level, and onClickNode or focusToNode with an index below 0 or not
\* below the length of the node list, leave the dataset, the lists and the
\* styles unchanged and raise nothing.
C15_OutOfRangeNoOp ==
    [][/\ \A index \in Indexes :
            (inited /\ (index < 0 \/ index >= Len(nodeDataList))
                /\ (onClickNode(index) \/ focusToNode(index)))
              => (~threw' /\ UNCHANGED <<treeVars, styleVars>>)
       /\ \A level \in Levels, nodeIndex \in Positions :
            ((nodeIndex < 0 \/ nodeIndex >= Len(NodesAtLevel(nodeDataList, level)))
                /\ expandNodeByLevelAndPosition(level, nodeIndex))
              => (~threw' /\ UNCHANGED <<treeVars, styleVars>>)]_vars
\* C16: every construction config field is optional: a field the supplied
\* treeConfig omits takes its documented default in the effective
\* configuration, so the chart ingests, lays out and offsets as with the
\* defaults filled in.
WithDefaults(cfg) ==
    [f \in ConfigFields |-> IF HasField(cfg, f) THEN cfg[f] ELSE ClassDefaults[f]]
C16_OmittedFieldsDefault ==
    LET full == WithDefaults(treeConfig)
    IN  /\ \A f \in {"focusToNode", "initiallyCollapsed", "useMobileZoom", "useMouseZoom"} :
               Flag(treeConfig, f) = full[f]
        /\ MinExpandedDepth(treeConfig) = full.collapseDepth
        /\ inited => nodeDataList = updateDataList(dataset, full).nodeDataList
        /\ initTransformX # PxUndefined =>
               <<initTransformX, initTransformY>> = InitialOffsetOf(full)

\* C17: after every layout pass on a dataset that declares an identifier and
\* explicit links, for each declared (parent, child) pair whose identifiers
\* both match positioned nodes, the link list holds a link from the matching
\* parent node to the matching child node.
Positioned(key) == \E j \in 1..Len(nodeDataList) : nodeDataList[j].data = key
C17_ExplicitLinksDrawn ==
    inited =>
        \A r \in Ids :
            (dataset.identifier[r] = "name" /\ Truthy(dataset.links[r])) =>
                \A j \in 1..Len(dataset.links[r].l) :
                    LET link == dataset.links[r].l[j]
                    IN  (Positioned(link.parent) /\ Positioned(link.child)) =>
                            \E k \in 1..Len(linkDataList) :
                                linkDataList[k] = [source |-> link.parent,
                                                   target |-> link.child]

\* C18: the layout yields exactly one positioned node per visible input node
\* (every input node when nothing is collapsed) plus the synthetic root, the
\* synthetic root first, and nodeCount - 1 hierarchical links; the exposed
\* node list omits the synthetic root and the exposed link list omits every
\* link whose source is the synthetic root.
RECURSIVE VisibleFrom(_, _)
VisibleFrom(ds, seen) ==
    LET more == seen \cup {c \in Ids : \E n \in seen : Contains(ds.children[n], c)}
    IN  IF more = seen THEN seen ELSE VisibleFrom(ds, more)
InputNodes(ds) == {n \in Ids : ds.depth[n] # NoDepth}
C18_OneNodePerVisibleNode ==
    LET t       == buildTree(dataset, treeConfig)
        visible == VisibleFrom(dataset, {InvisibleRoot})
        rooted  == {k \in 1..Len(t.links) : t.links[k].source = InvisibleRoot}
    IN  /\ Len(t.nodes) = Cardinality(visible)
        /\ {t.nodes[j].data : j \in 1..Len(t.nodes)} = visible
        /\ t.nodes[1].data = InvisibleRoot
        /\ Len(t.links) = Len(t.nodes) - 1
        /\ (\A n \in Ids : ~Truthy(dataset._children[n])) =>
               visible = InputNodes(dataset) \cup {InvisibleRoot}
        /\ inited =>
               /\ nodeDataList = Tail(t.nodes)
               /\ \A j \in 1..Len(nodeDataList) : nodeDataList[j].data # InvisibleRoot
               /\ \A k \in 1..Len(linkDataList) : linkDataList[k].source # InvisibleRoot
               /\ Len(linkDataList) = Len(t.links) - Cardinality(rooted)
               /\ \A k \in 1..Len(t.links) :
                      k \notin rooted => \E m \in 1..Len(linkDataList) :
                                             linkDataList[m] = t.links[k]
C18_Witness ==
    /\ inited
    /\ Len(nodeDataList) = 3
    /\ Len(linkDataList) = 2
    /\ dataset._children[2] = List(<<4, 5>>)
    /\ dataset.children[1] = List(<<2, 3>>)

\* C19: for a forest input [r1, ..., rn] the children of the synthetic root
\* in the internal dataset are [rn, ..., r1]; a single-object input yields
\* exactly one child; the order inside each tree is unchanged.
Reversed(l) == [j \in 1..Len(l) |-> l[Len(l) + 1 - j]]
\* ds is ext ingested: the roots as above, and every node's children, in the
\* slot that holds them, in the order of the input
IngestedFrom(ds, ext) ==
    /\ ~ext.missing
    /\ Truthy(ds.children[InvisibleRoot])
    /\ IF ext.isArray
       THEN ds.children[InvisibleRoot].l = Reversed(ext.roots)
       ELSE ds.children[InvisibleRoot].l = <<ext.roots[1]>>
    /\ \A n \in 1..MaxNode :
          IF Truthy(ext.kids[n])
          THEN \/ ds.children[n] = ext.kids[n] /\ ~Truthy(ds._children[n])
               \/ ds._children[n] = ext.kids[n] /\ ~Truthy(ds.children[n])
          ELSE ~Truthy(ds.children[n]) /\ ~Truthy(ds._children[n])
C19_ForestReversed ==
    /\ \A ext \in ExternalDatasets :
          ~ext.missing => IngestedFrom(updatedInternalData(ext, treeConfig), ext)
    /\ \/ dataset = EmptyData
       \/ \E ext \in ExternalDatasets : IngestedFrom(dataset, ext)
C19_Witness ==
    /\ dataset.children[InvisibleRoot] = List(<<2, 1>>)
    /\ dataset._children[1] = List(<<3, 4>>)
    /\ inited

\* onClickNode(index) moves the children of the node from one slot to the other
ClickToggles(index, key) ==
    LET after == DatasetAfterClick(index)
    IN  /\ Truthy(after.children[key]) # Truthy(dataset.children[key])
        /\ Truthy(after._children[key]) # Truthy(dataset._children[key])

\* C20 as stated: with collapseEnabled = true, for every node of the exposed
\* node list that has children or parked children there is an index i such
\* that onClickNode(i) toggles that node's collapsed state.
C20_EveryNodeToggles ==
    (inited /\ collapseEnabled) =>
        \A j \in 1..Len(nodeDataList) :
            HasChildren(nodeDataList[j].data) =>
                \E index \in Indexes : ClickToggles(index, nodeDataList[j].data)

\* C20: with collapseEnabled = true, every node at an index i >= 1 of the
\* exposed node list that has children or parked children is toggled by
\* onClickNode(i); the node at index 0 is toggled by no click.
C20_EveryNodeButFirstToggles ==
    (inited /\ collapseEnabled) =>
        /\ \A j \in 2..Len(nodeDataList) :
               HasChildren(nodeDataList[j].data) =>
                   ClickToggles(j - 1, nodeDataList[j].data)
        /\ Len(nodeDataList) > 0 =>
               \A index \in Indexes : ~ClickToggles(index, nodeDataList[1].data)
C20_Witness ==
    /\ inited /\ collapseEnabled
    /\ treeConfig = DefaultConfig
    /\ Len(nodeDataList) >= 3
    /\ dataset._collapsed[nodeDataList[2].data] = "true"
    /\ Truthy(dataset._children[nodeDataList[2].data])
    /\ Truthy(dataset.children[nodeDataList[3].data])
    /\ Truthy(dataset.children[nodeDataList[1].data])

\* the translate captured at pointer-down: that of mouseDownTransform, (0, 0)
\* when no transform was applied yet
CapturedTranslate ==
    IF MatchTranslate(mouseDownTransform)
    THEN <<mouseDownTransform.x, mouseDownTransform.y>>
    ELSE <<Px(0), Px(0)>>
\* captured translate + floor((pointer - pointer-down) / currentScale)
ExpectedDragTranslate(point) ==
    <<FloorDivPlus(point[1] - startX, currentScale, CapturedTranslate[1].v),
      FloorDivPlus(point[2] - startY, currentScale, CapturedTranslate[2].v)>>

\* C21: during one drag, at a scale the pointer delta can be divided by (a
\* positive number) and from a transform that is empty or carries a
\* translate, every pointer-move leaves on both surfaces the translate
\* captured at pointer-down plus floor((pointer position - pointer-down
\* position) / currentScale) on each axis, a function of the latest pointer
\* position only: a move back to the pointer-down position restores the
\* drag-start translate.
C21_DragFromOrigin ==
    [][(onpointermove /\ isDrag /\ interactionMode = "drag" /\ ~destroyed
            /\ currentScale.k = "num" /\ currentScale.n > 0
            /\ (MatchTranslate(mouseDownTransform) \/ mouseDownTransform.f = "empty"))
          => \E point \in Points :
                /\ TranslateOf(svgTransform') = ExpectedDragTranslate(point)
                /\ TranslateOf(domTransform') = ExpectedDragTranslate(point)
                /\ point = <<startX, startY>> =>
                       TranslateOf(svgTransform') = CapturedTranslate]_vars
\* a drag at scale 2 that moved the chart by floor(3 / 2) and floor(2 / 2)
C21_Witness ==
    /\ isDrag /\ interactionMode = "drag"
    /\ currentScale = Num(2, 1)
    /\ startX = 0 /\ startY = 0
    /\ MatchTranslate(mouseDownTransform)
    /\ MatchTranslate(svgTransform)
    /\ svgTransform.x = Px(mouseDownTransform.x.v + 1)
    /\ svgTransform.y = Px(mouseDownTransform.y.v + 1)

\* C22: after every animated transform change (restorePosition, focusToNode)
\* a timeout is pending that will clear the transition of both surfaces with
\* no further gesture, and the timeout of an earlier animation never clears
\* the transition a later animation has set.
FocusTransition == "transform 0.3s ease"
C22_TransitionClearedByOwnTimeout ==
    [][/\ (svgTransition' = FocusTransition \/ domTransition' = FocusTransition)
           => timers' > 0
       /\ (timers' < timers /\ svgTransition = FocusTransition)
           => svgTransition' = FocusTransition]_vars

\* the exposed nodes whose structural depth (the depth field assignDepth
\* wrote, 0 for the real roots) is the level, in list order
AtStructuralLevel(level) ==
    SelectSeq(nodeDataList, LAMBDA node : dataset.depth[node.data] = level)

\* C23: expandNodeByLevelAndPosition(level, i) selects, among the exposed
\* nodes whose structural depth equals level, the i-th in list order, and
\* expands it if it is collapsed.
C23_ExpandByStructuralLevel ==
    [][\A level \in Levels, nodeIndex \in Positions :
          LET nodes == AtStructuralLevel(level)
          IN  (/\ nodeIndex >= 0 /\ nodeIndex < Len(nodes)
               /\ Truthy(dataset._children[nodes[nodeIndex + 1].data])
               /\ expandNodeByLevelAndPosition(level, nodeIndex))
              => Truthy(dataset'.children[nodes[nodeIndex + 1].data])]_vars

\* the scale factor a surface is drawn with: that of the scale(...) part of
\* its transform, 1 when the transform has none
AppliedScale(str) == IF MatchScale(str) THEN str.s ELSE Num(1, 1)

\* C24: in every reachable state of any interleaving of zoom, wheel, pinch,
\* drag, restorePosition, focusToNode and reinitTransform, the stored
\* currentScale equals the scale factor of the transform applied to the
\* surfaces (stated on the states whose scale is a positive number and whose
\* applied transform carries a translate).
C24_StoredScaleIsApplied ==
    (currentScale.k = "num" /\ currentScale.n > 0 /\ MatchTranslate(svgTransform)) =>
        /\ currentScale = AppliedScale(svgTransform)
        /\ currentScale = AppliedScale(domTransform)

\* C25: for every valid index i, after onClickNode(i) and the re-layout the
\* node at index i of the new node list is the node that was clicked, so the
\* focusToNode(i) issued right after the click targets the clicked node.
C25_ClickKeepsIndex ==
    \A index \in 0..(Len(nodeDataList) - 1) :
        LET redrawn == updateDataList(DatasetAfterClick(index), treeConfig).nodeDataList
        IN  /\ index < Len(redrawn)
            /\ redrawn[index + 1].data = nodeDataList[index + 1].data
\* node 3 expanded by a click that closed its sibling 2, still third in the list
C25_Witness ==
    /\ inited /\ collapseEnabled
    /\ treeConfig = InteractiveConfig
    /\ Len(nodeDataList) = 4
    /\ nodeDataList[3].data = 3
    /\ nodeDataList[4].data = 6
    /\ dataset.children[3] = List(<<6>>)
    /\ dataset._children[2] = List(<<4, 5>>)

\* C26: the initial offset is computed before it is read: in every ordering
\* of init, the animation-frame callback, getInitialTransformStyle and
\* restorePosition, the offset read is the defined orientation-dependent
\* value.
C26_OffsetComputedBeforeRead ==
    [][/\ (inited /\ getInitialTransformStyle)
           => initialTransformStyle'
                 = ScaleTranslateStr(Num(1, 1), InitialOffset[1], InitialOffset[2])
       /\ (inited /\ restorePosition)
           => <<initTransformX, initTransformY>> = InitialOffset]_vars
====
